---- MODULE Spec2Model ----
(***************************************************************************)
(* Monte Carlo Tree Search (monte_carlo_ts.py) run on the Nim sim world    *)
(* (game_nim.py), driven either by a direct caller of mc_tree_search and   *)
(* initialize_variables or by the training loop of                        *)
(* reinforcement_learning.py.                                              *)
(*                                                                         *)
(* Python values.  A game state is a Python sequence; the code produces    *)
(* lists (get_one_hot_from_state) and tuples (get_child_state), and a      *)
(* caller may pass either.  A state is the record [kind, e]: kind is       *)
(* "list" or "tuple", e the elements.  Lists are unhashable: a set         *)
(* membership test or a dict key holding one raises TypeError.             *)
(* A call's result is [exc, val]: exc is "none" or the exception raised.   *)
(* A heuristic value is the exact rational <<numerator, denominator>> in   *)
(* lowest terms (floating point rounding is not modelled).                 *)
(***************************************************************************)
EXTENDS Integers, Sequences, FiniteSets, TLC

\* ------------------------------------------------------------------ bounds
\* N, the number of pieces of the board (GameNim.__init__; the default is 10).
num_pieces == 3
\* K, the most pieces one move may take (GameNim.__init__ default).
max_take == 2
\* The largest simulation budget M a MonteCarloTreeSearch is constructed with.
MaxSimulations == 2
\* The most mc_tree_search calls a direct caller makes on one object.
MaxCalls == 2
\* The number of episodes of the training loop (num_games; the default is 100).
NumGames == 2
\* num_policies of ReinforcementLearner: its default, and the values train is
\* run with.
default_num_policies == 5
\* simulations of MonteCarloTreeSearch.__init__, which initialize_mcts leaves
\* at its default.
default_simulations == 500
NumPolicies == {2, 3, default_num_policies}
\* default_exp_const of MonteCarloTreeSearch.__init__.
default_exp_const == 1
\* Fixed-point scale of the exploration term.
Scale == 1000 * 1000

\* ---------------------------------------------------------- Python values
List(elems) == [kind |-> "list", e |-> elems]
Tuple(elems) == [kind |-> "tuple", e |-> elems]
Raise(x) == [exc |-> x, val |-> <<>>]
Return(v) == [exc |-> "none", val |-> v]

Min(a, b) == IF a < b THEN a ELSE b

RECURSIVE GCD(_, _)
GCD(a, b) == IF b = 0 THEN a ELSE GCD(b, a % b)

\* The rational n/d (d > 0) in lowest terms.
Rat(n, d) == LET g == GCD(IF n < 0 THEN -n ELSE n, d) IN <<n \div g, d \div g>>

\* dict[key] = value
Put(f, k, v) == [x \in (DOMAIN f) \cup {k} |-> IF x = k THEN v ELSE f[x]]
EmptyDict == [x \in {} |-> 0]

\* ---------------------------------------------------------------- GameNim
\* get_one_hot_from_state((curr_discs, pid)): num_pieces + 1 zeros with a 1 at
\* index curr_discs, then the pid; a list.
get_one_hot_from_state(state_num) ==
    List([j \in 1..(num_pieces + 2) |->
            IF j = num_pieces + 2 THEN state_num[2]
            ELSE IF j = state_num[1] + 1 THEN 1 ELSE 0])

get_initial_state == get_one_hot_from_state(<<num_pieces, 0>>)

\* state_oh[:-1].index(1): the 0-based position of the first 1 before the last
\* element; list.index and tuple.index raise ValueError when there is none.
get_num_discs_from_one_hot(state_oh) ==
    LET body == SubSeq(state_oh.e, 1, Len(state_oh.e) - 1)
        ones == {j \in 1..Len(body) : body[j] = 1}
    IN  IF ones = {} THEN Raise("ValueError")
        ELSE Return((CHOOSE j \in ones : \A k \in ones : j <= k) - 1)

\* (mutant) the range ends one early: the largest legal action is left out.
get_legal_actions_drops_largest(state) ==
    LET num_discs == get_num_discs_from_one_hot(state)
    IN  IF num_discs.exc # "none" THEN num_discs
        ELSE Return([a \in 1..(Min(num_discs.val, max_take) - 1) |-> a])

\* list(range(1, min(num_discs, max_take) + 1))
get_legal_actions(state) ==
    LET num_discs == get_num_discs_from_one_hot(state)
    IN  IF num_discs.exc # "none" THEN num_discs
        ELSE Return([a \in 1..Min(num_discs.val, max_take) |-> a])

\* (mutant) the lower bound of the range test is off by one: 0 is accepted.
get_child_state_accepts_zero(state, action) ==
    LET num_discs == get_num_discs_from_one_hot(state)
    IN  IF num_discs.exc # "none" THEN num_discs
        ELSE IF action < 0 \/ action > max_take THEN Raise("ValueError")
        ELSE IF action > num_discs.val THEN Raise("ValueError")
        ELSE Return(Tuple(<<num_discs.val - action,
                            1 - state.e[Len(state.e)]>>))

get_child_state(state, action) ==
    LET num_discs == get_num_discs_from_one_hot(state)
    IN  IF num_discs.exc # "none" THEN num_discs
        ELSE IF action < 1 \/ action > max_take THEN Raise("ValueError")
        ELSE IF action > num_discs.val THEN Raise("ValueError")
        ELSE Return(Tuple(<<num_discs.val - action,
                            1 - state.e[Len(state.e)]>>))

\* (mutant) the test reads the last element instead of the first.
state_is_final_reads_last(state) == state.e[Len(state.e)] = 1

\* state[0] == 1
state_is_final(state) == state.e[1] = 1

\* state[-1] == 0
p0_to_play(state) == state.e[Len(state.e)] = 0

\* state_is_final(state) and not p0_to_play(state), as the number the
\* arithmetic of backup reads it as (True is 1, False is 0).
winner_is_p0(state) ==
    IF state_is_final(state) /\ ~p0_to_play(state) THEN 1 ELSE 0

\* --------------------------------------------------- MonteCarloTreeSearch
\* The statistics of a MonteCarloTreeSearch object as one value.
Stats(t, vs, vsa, h) ==
    [tree |-> t, visit_counts_s |-> vs, visit_counts_sa |-> vsa, heuristic |-> h]

\* initialize_variables: empty set and three empty dicts.
initialize_variables == Stats({}, EmptyDict, EmptyDict, EmptyDict)

\* A statistics value together with the exception that ended the operation.
Outcome(x, st) == [exc |-> x, st |-> st]

\* np.log(n) for n = 1, 2, ..., times Scale, rounded down.
LnScaled ==
    <<0, 693147, 1098612, 1386294, 1609437, 1791759, 1945910, 2079441,
      2197224, 2302585, 2397895, 2484906, 2564949, 2639057, 2708050, 2772588,
      2833213, 2890371, 2944438, 2995732, 3044522, 3091042, 3135494, 3178053>>

\* The integer square root of x, searched between lo and hi.
RECURSIVE ISqrtIn(_, _, _)
ISqrtIn(x, lo, hi) ==
    IF lo = hi THEN lo
    ELSE LET mid == (lo + hi + 1) \div 2
         IN  IF mid * mid <= x THEN ISqrtIn(x, mid, hi)
             ELSE ISqrtIn(x, lo, mid - 1)

\* np.sqrt(np.log(ns) / (nsa + 1)) for ns >= 1, times Scale, rounded down:
\* the integer square root of LnScaled[ns] * Scale / (nsa + 1), taken in two
\* steps (four digits, then two more) so that no intermediate value leaves
\* 32 bits.
ExplorationTerm(ns, nsa) ==
    LET a == LnScaled[ns] * 100
        y4 == a \div (nsa + 1)
        ymod == ((a % (nsa + 1)) * 10000) \div (nsa + 1)
        r4 == ISqrtIn(y4, 0, 46340)
        rem == (y4 - r4 * r4) * 10000 + ymod
        digits == {d \in 0..99 : d * (200 * r4 + d) <= rem}
    IN  r4 * 100 + (CHOOSE d \in digits : \A k \in digits : k <= d)

\* heuristic + sign * exploration * sqrt(log(visit_counts_s) / (visit_counts_sa + 1))
\* as the fraction n/d of Scale-ths; np.log(0) is -inf, its square root nan, and
\* nan times anything (0 included) and plus anything is nan.
ActionValue(h, ns, nsa, exploration, sign) ==
    IF ns = 0 THEN [nan |-> TRUE, n |-> 0, d |-> 1]
    ELSE [nan |-> FALSE,
          n |-> h[1] * Scale + sign * exploration * ExplorationTerm(ns, nsa) * h[2],
          d |-> h[2]]

Less(x, y) == x.n * y.d < y.n * x.d

\* np.argmax: the first nan if there is one, else the first largest (1-based).
ArgMax(values) ==
    LET idx == 1..Len(values)
        nans == {j \in idx : values[j].nan}
    IN  IF nans # {} THEN CHOOSE j \in nans : \A k \in nans : j <= k
        ELSE CHOOSE j \in idx :
                /\ \A k \in idx : ~Less(values[j], values[k])
                /\ \A k \in idx : k < j => Less(values[k], values[j])

\* (mutant) among equal smallest values the last one is taken.
ArgMin_takes_last(values) ==
    LET idx == 1..Len(values)
        nans == {j \in idx : values[j].nan}
    IN  IF nans # {} THEN CHOOSE j \in nans : \A k \in nans : j <= k
        ELSE CHOOSE j \in idx :
                /\ \A k \in idx : ~Less(values[k], values[j])
                /\ \A k \in idx : k > j => Less(values[j], values[k])

\* np.argmin: the first nan if there is one, else the first smallest (1-based).
ArgMin(values) ==
    LET idx == 1..Len(values)
        nans == {j \in idx : values[j].nan}
    IN  IF nans # {} THEN CHOOSE j \in nans : \A k \in nans : j <= k
        ELSE CHOOSE j \in idx :
                /\ \A k \in idx : ~Less(values[k], values[j])
                /\ \A k \in idx : k < j => Less(values[j], values[k])

\* The first exception a lookup of the statistics of (state, action) raises.
LookupError(st, state, action) ==
    IF state.kind = "list" THEN "TypeError"
    ELSE IF <<state, action>> \notin DOMAIN st.heuristic THEN "KeyError"
    ELSE IF state \notin DOMAIN st.visit_counts_s THEN "KeyError"
    ELSE IF <<state, action>> \notin DOMAIN st.visit_counts_sa THEN "KeyError"
    ELSE "none"

select_action(st, state, exploration) ==
    LET legal_actions == get_legal_actions(state)
    IN  IF legal_actions.exc # "none" THEN legal_actions
        ELSE LET acts == legal_actions.val
                 bad == {j \in 1..Len(acts) : LookupError(st, state, acts[j]) # "none"}
             IN  IF bad # {}
                 THEN Raise(LookupError(st, state,
                        acts[CHOOSE j \in bad : \A k \in bad : j <= k]))
                 ELSE IF Len(acts) = 0 THEN Raise("ValueError")
                 ELSE LET sign == IF p0_to_play(state) THEN 1 ELSE -1
                          action_values ==
                            [j \in 1..Len(acts) |->
                               ActionValue(st.heuristic[<<state, acts[j]>>],
                                           st.visit_counts_s[state],
                                           st.visit_counts_sa[<<state, acts[j]>>],
                                           exploration, sign)]
                      IN  IF p0_to_play(state)
                          THEN Return(acts[ArgMax(action_values)])
                          ELSE Return(acts[ArgMin(action_values)])

\* (mutant) the visit count of the state is not incremented.
backup_pair_skips_state_count(st, s, a, outcome) ==
    LET nsa == st.visit_counts_sa[<<s, a>>] + 1
        h == st.heuristic[<<s, a>>]
    IN  Stats(st.tree,
              st.visit_counts_s,
              [st.visit_counts_sa EXCEPT ![<<s, a>>] = nsa],
              [st.heuristic EXCEPT ![<<s, a>>] =
                  Rat(h[1] * nsa + (outcome * h[2] - h[1]), h[2] * nsa)])

\* (mutant) the update adds outcome / count instead of (outcome - value) / count.
backup_pair_adds_outcome(st, s, a, outcome) ==
    LET nsa == st.visit_counts_sa[<<s, a>>] + 1
        h == st.heuristic[<<s, a>>]
    IN  Stats(st.tree,
              [st.visit_counts_s EXCEPT ![s] = @ + 1],
              [st.visit_counts_sa EXCEPT ![<<s, a>>] = nsa],
              [st.heuristic EXCEPT ![<<s, a>>] =
                  Rat(h[1] * nsa + outcome * h[2], h[2] * nsa)])

\* (mutant) the update divides by the count plus one.
backup_pair_divides_by_next_count(st, s, a, outcome) ==
    LET nsa == st.visit_counts_sa[<<s, a>>] + 1
        h == st.heuristic[<<s, a>>]
    IN  Stats(st.tree,
              [st.visit_counts_s EXCEPT ![s] = @ + 1],
              [st.visit_counts_sa EXCEPT ![<<s, a>>] = nsa],
              [st.heuristic EXCEPT ![<<s, a>>] =
                  Rat(h[1] * (nsa + 1) + (outcome * h[2] - h[1]), h[2] * (nsa + 1))])

\* (mutant) the action's visit count is kept per state: the counts of all the
\* actions of the state go up.
backup_pair_credits_every_action(st, s, a, outcome) ==
    LET nsa == st.visit_counts_sa[<<s, a>>] + 1
        h == st.heuristic[<<s, a>>]
    IN  Stats(st.tree,
              [st.visit_counts_s EXCEPT ![s] = @ + 1],
              [k \in DOMAIN st.visit_counts_sa |->
                  IF k[1] = s THEN st.visit_counts_sa[k] + 1
                  ELSE st.visit_counts_sa[k]],
              [st.heuristic EXCEPT ![<<s, a>>] =
                  Rat(h[1] * nsa + (outcome * h[2] - h[1]), h[2] * nsa)])

\* One pair of backup's loop: both visit counts + 1, then the incremental mean.
backup_pair(st, s, a, outcome) ==
    LET nsa == st.visit_counts_sa[<<s, a>>] + 1
        h == st.heuristic[<<s, a>>]
    IN  Stats(st.tree,
              [st.visit_counts_s EXCEPT ![s] = @ + 1],
              [st.visit_counts_sa EXCEPT ![<<s, a>>] = nsa],
              [st.heuristic EXCEPT ![<<s, a>>] =
                  Rat(h[1] * nsa + (outcome * h[2] - h[1]), h[2] * nsa)])

\* backup from the j-th pair of zip(visited_states, performed_actions) on.
RECURSIVE backup_from(_, _, _, _, _)
backup_from(st, visited_states, performed_actions, outcome, j) ==
    IF j > Min(Len(visited_states), Len(performed_actions)) THEN Outcome("none", st)
    ELSE LET s == visited_states[j]
             a == performed_actions[j]
         IN  IF s.kind = "list" THEN Outcome("TypeError", st)
             ELSE IF s \notin DOMAIN st.visit_counts_s THEN Outcome("KeyError", st)
             ELSE IF <<s, a>> \notin DOMAIN st.visit_counts_sa
                  THEN Outcome("KeyError",
                         [st EXCEPT !.visit_counts_s[s] = @ + 1])
             ELSE IF <<s, a>> \notin DOMAIN st.heuristic
                  THEN Outcome("KeyError",
                         [st EXCEPT !.visit_counts_s[s] = @ + 1,
                                    !.visit_counts_sa[<<s, a>>] = @ + 1])
             ELSE backup_from(backup_pair(st, s, a, outcome),
                              visited_states, performed_actions, outcome, j + 1)

backup(st, visited_states, performed_actions, outcome) ==
    backup_from(st, visited_states, performed_actions, outcome, 1)

\* (mutant) the tree is replaced by the new state instead of extended by it.
new_node_replaces_tree(st, state_t) ==
    IF state_t.kind = "list" THEN Outcome("TypeError", st)
    ELSE LET legal_actions == get_legal_actions(state_t)
             t == {state_t}
             vs == Put(st.visit_counts_s, state_t, 0)
         IN  IF legal_actions.exc # "none"
             THEN Outcome(legal_actions.exc,
                          Stats(t, vs, st.visit_counts_sa, st.heuristic))
             ELSE LET keys == {<<state_t, legal_actions.val[j]>> :
                                 j \in 1..Len(legal_actions.val)}
                  IN  Outcome("none",
                        Stats(t, vs,
                          [k \in (DOMAIN st.visit_counts_sa) \cup keys |->
                             IF k \in keys THEN 0 ELSE st.visit_counts_sa[k]],
                          [k \in (DOMAIN st.heuristic) \cup keys |->
                             IF k \in keys THEN <<0, 1>> ELSE st.heuristic[k]]))

\* (mutant) new_node expands the node in full: its children join the tree
\* with it.
new_node_adds_children(st, state_t) ==
    IF state_t.kind = "list" THEN Outcome("TypeError", st)
    ELSE LET legal_actions == get_legal_actions(state_t)
             t == st.tree \cup {state_t}
             vs == Put(st.visit_counts_s, state_t, 0)
         IN  IF legal_actions.exc # "none"
             THEN Outcome(legal_actions.exc,
                          Stats(t, vs, st.visit_counts_sa, st.heuristic))
             ELSE LET keys == {<<state_t, legal_actions.val[j]>> :
                                 j \in 1..Len(legal_actions.val)}
                      children == {get_child_state(state_t, legal_actions.val[j]).val :
                                     j \in 1..Len(legal_actions.val)}
                  IN  Outcome("none",
                        Stats(t \cup children, vs,
                          [k \in (DOMAIN st.visit_counts_sa) \cup keys |->
                             IF k \in keys THEN 0 ELSE st.visit_counts_sa[k]],
                          [k \in (DOMAIN st.heuristic) \cup keys |->
                             IF k \in keys THEN <<0, 1>> ELSE st.heuristic[k]]))

\* A variant of new_node that starts the new state's visit count at 1.
new_node_starts_at_one(st, state_t) ==
    IF state_t.kind = "list" THEN Outcome("TypeError", st)
    ELSE LET legal_actions == get_legal_actions(state_t)
             t == st.tree \cup {state_t}
             vs == Put(st.visit_counts_s, state_t, 1)
         IN  IF legal_actions.exc # "none"
             THEN Outcome(legal_actions.exc,
                          Stats(t, vs, st.visit_counts_sa, st.heuristic))
             ELSE LET keys == {<<state_t, legal_actions.val[j]>> :
                                 j \in 1..Len(legal_actions.val)}
                  IN  Outcome("none",
                        Stats(t, vs,
                          [k \in (DOMAIN st.visit_counts_sa) \cup keys |->
                             IF k \in keys THEN 0 ELSE st.visit_counts_sa[k]],
                          [k \in (DOMAIN st.heuristic) \cup keys |->
                             IF k \in keys THEN <<0, 1>> ELSE st.heuristic[k]]))

\* new_node: the state joins the tree with visit count 0, then every legal
\* action gets visit count 0 and value 0; get_legal_actions may raise after
\* the first two assignments are done.
new_node(st, state_t) ==
    IF state_t.kind = "list" THEN Outcome("TypeError", st)
    ELSE LET legal_actions == get_legal_actions(state_t)
             t == st.tree \cup {state_t}
             vs == Put(st.visit_counts_s, state_t, 0)
         IN  IF legal_actions.exc # "none"
             THEN Outcome(legal_actions.exc,
                          Stats(t, vs, st.visit_counts_sa, st.heuristic))
             ELSE LET keys == {<<state_t, legal_actions.val[j]>> :
                                 j \in 1..Len(legal_actions.val)}
                  IN  Outcome("none",
                        Stats(t, vs,
                          [k \in (DOMAIN st.visit_counts_sa) \cup keys |->
                             IF k \in keys THEN 0 ELSE st.visit_counts_sa[k]],
                          [k \in (DOMAIN st.heuristic) \cup keys |->
                             IF k \in keys THEN <<0, 1>> ELSE st.heuristic[k]]))

\* get_visited_distribution: the visit counts of the legal actions, divided by
\* their sum (numpy divides 0.0 by 0.0 to nan and goes on), then
\* len(legal_actions[0]): IndexError on an empty list, and TypeError on the
\* actions of GameNim, which are ints.
get_visited_distribution(st, state) ==
    LET legal_actions == get_legal_actions(state)
    IN  IF legal_actions.exc # "none" THEN legal_actions
        ELSE LET acts == legal_actions.val
             IN  IF acts # <<>> /\ state.kind = "list" THEN Raise("TypeError")
                 ELSE IF \E j \in 1..Len(acts) :
                           <<state, acts[j]>> \notin DOMAIN st.visit_counts_sa
                      THEN Raise("KeyError")
                 ELSE IF acts = <<>> THEN Raise("IndexError")
                 ELSE Raise("TypeError")

\* ------------------------------------------------------------------ state
VARIABLES
    num_policies,       \* the num_policies argument of ReinforcementLearner
    caller,             \* "direct": a caller of the two public methods; "train": the training loop
    simulations,        \* self.simulations (M), fixed at construction
    calls,              \* mc_tree_search calls made so far (bounds the direct caller)
    pc,                 \* position of the search: idle, mc_tree_search, simulate_tree, ...
    root_state,         \* the argument of the running mc_tree_search call
    i,                  \* completed iterations of the loop of mc_tree_search
    state,              \* self.state
    visited_states,     \* local of simulate
    expanded,           \* history: <<s>> when new_node has set up s in the running simulation
    performed_actions,  \* local of simulate
    first_action,       \* local of simulate_default: <<>> is None, <<a>> the action a
    outcome,            \* local of simulate: the value simulate_default returned
    exc,                \* the exception that ended the last call ("none": none)
    aborted,            \* history: an exception has ended a simulation of this object
    recommended,        \* value of select_action(root_state, 0) in the return statement
    distribution,       \* the distribution a returned call returned (<<>>: none)
    tree, visit_counts_s, visit_counts_sa, heuristic,
    tpc,                \* position of the training side: init (the learner is not
                        \* constructed yet), for, while, call, done, crashed
    train_exc,          \* the exception that left ReinforcementLearner.__init__ or train
    episode,            \* the loop variable of train
    train_state,        \* local state of train
    passes,             \* history: (state, action) |-> <<backups through it, sum of their outcomes>>
    sim_start,          \* history: the statistics when the running simulation started
    entry,              \* history: the tree and the root's visit count (0: none) when the
                        \*          running mc_tree_search call was entered
    created,            \* history: state |-> executions of new_node on it since the last reset
    credits             \* history: state |-> <<completed simulations whose descent went through it
                        \*          as a state of the tree, completed simulations that expanded it>>

vars == <<caller, num_policies, train_exc, simulations, calls, pc, root_state, i, state, visited_states, expanded,
          performed_actions, first_action, outcome, exc, aborted, recommended,
          distribution, tree, visit_counts_s, visit_counts_sa, heuristic,
          tpc, episode, train_state, passes, credits, created, entry, sim_start>>

Cur == Stats(tree, visit_counts_s, visit_counts_sa, heuristic)

SetStats(st) ==
    /\ tree' = st.tree
    /\ visit_counts_s' = st.visit_counts_s
    /\ visit_counts_sa' = st.visit_counts_sa
    /\ heuristic' = st.heuristic

\* The actions a default policy may propose: the legal ones and, the policy
\* being outside the search's control, 0 and max_take + 1.
Proposals == 0..(max_take + 1)

OneHots == {get_one_hot_from_state(<<n, p>>) : n \in 0..num_pieces, p \in {0, 1}}

\* The root states handed to mc_tree_search: the lists GameNim produces, the
\* same one-hot vectors as tuples, and the pairs get_child_state returns.
Roots ==
    OneHots \cup {Tuple(s.e) : s \in OneHots}
            \cup {Tuple(<<n, p>>) : n \in 0..num_pieces, p \in {0, 1}}

Idle == {"idle", "raised", "returned"}

Init ==
    /\ caller \in {"direct", "train"}
    /\ num_policies \in (IF caller = "train" THEN NumPolicies
                                            ELSE {default_num_policies})
    /\ simulations \in (IF caller = "direct" THEN 0..MaxSimulations
                                             ELSE {default_simulations})
    /\ calls = 0
    /\ pc = "idle"
    /\ root_state = <<>>
    /\ i = 0
    /\ state = <<>>
    /\ visited_states = <<>>
    /\ expanded = <<>>
    /\ performed_actions = <<>>
    /\ first_action = <<>>
    /\ outcome = 0
    /\ exc = "none"
    /\ aborted = FALSE
    /\ recommended = <<>>
    /\ distribution = <<>>
    /\ tree = {}
    /\ visit_counts_s = EmptyDict
    /\ visit_counts_sa = EmptyDict
    /\ heuristic = EmptyDict
    /\ tpc = "init"
    /\ train_exc = "none"
    /\ episode = 0
    /\ train_state = <<>>
    /\ passes = EmptyDict
    /\ credits = EmptyDict
    /\ created = EmptyDict
    /\ entry = [tree |-> {}, root_visits |-> 0]
    /\ sim_start = initialize_variables

\* (mutant) mc_tree_search wraps simulate in a handler that drops the
\* exception and goes on with the loop.
mc_tree_search_swallows(e) == "mc_tree_search"

\* (mutant) mc_tree_search catches the exception and returns normally.
mc_tree_search_returns_anyway(e) == "returned"

\* Where the exception e raised under mc_tree_search leaves the search:
\* neither simulate nor mc_tree_search has a handler, so the call ends and
\* the caller gets the exception.
mc_tree_search_raises(e) == "raised"

ClearLocals ==
    /\ visited_states' = <<>>
    /\ expanded' = <<>>
    /\ performed_actions' = <<>>
    /\ first_action' = <<>>
    /\ outcome' = 0

RaiseToCaller(e) ==
    /\ pc' = mc_tree_search_raises(e)
    /\ exc' = e
    /\ aborted' = (aborted \/ pc \in {"simulate_tree", "simulate_default",
                                        "rollout", "backup"})
    /\ recommended' = <<>>
    /\ distribution' = <<>>
    /\ ClearLocals

\* The call mc_tree_search(r) is entered.
Enter(r) ==
    /\ root_state' = r
    /\ i' = 0
    /\ pc' = "mc_tree_search"
    /\ exc' = "none"
    /\ aborted' = aborted
    /\ recommended' = <<>>
    /\ distribution' = <<>>
    /\ calls' = calls + 1
    /\ sim_start' = sim_start
    /\ entry' = [tree |-> tree,
                 root_visits |-> IF r \in DOMAIN visit_counts_s
                                 THEN visit_counts_s[r] ELSE 0]
    /\ ClearLocals

\* ---------------------------------------------------------- direct caller
direct_initialize_variables ==
    /\ caller = "direct"
    /\ pc \in Idle
    /\ SetStats(initialize_variables)
    /\ passes' = EmptyDict
    /\ credits' = EmptyDict
    /\ created' = EmptyDict
    /\ pc' = "idle"
    /\ exc' = "none"
    /\ aborted' = aborted
    /\ recommended' = <<>>
    /\ distribution' = <<>>
    /\ UNCHANGED <<caller, num_policies, train_exc, simulations, calls, root_state, i, state,
                   visited_states, expanded, performed_actions, first_action, outcome,
                   tpc, episode, train_state, entry, sim_start>>

direct_mc_tree_search ==
    /\ caller = "direct"
    /\ pc \in Idle
    /\ calls < MaxCalls
    /\ \E r \in Roots : Enter(r)
    /\ UNCHANGED <<caller, num_policies, train_exc, simulations, state, tree, visit_counts_s,
                   visit_counts_sa, heuristic, tpc, episode, train_state, passes, credits, created>>

\* ------------------------------------------------------- mc_tree_search
\* for _ in range(self.simulations): self.simulate(root_state), up to the
\* call of simulate_tree.
simulate ==
    /\ pc = "mc_tree_search"
    /\ i < simulations
    /\ state' = root_state
    /\ visited_states' = <<>>
    /\ expanded' = <<>>
    /\ performed_actions' = <<>>
    /\ pc' = "simulate_tree"
    /\ sim_start' = Cur
    /\ UNCHANGED <<caller, num_policies, train_exc, simulations, calls, root_state, i, first_action,
                   outcome, exc, aborted, recommended, distribution, tree, visit_counts_s,
                   visit_counts_sa, heuristic, tpc, episode, train_state, passes, credits, created, entry>>

\* (mutant) the membership test is missing: every state the descent stands
\* on is taken for a leaf.
not_in_tree_always(t, state_t) == TRUE

\* if state_t not in self.tree
not_in_tree(t, state_t) == state_t \notin t

\* One test of the while loop of simulate_tree and, if it passes, its body.
simulate_tree ==
    /\ pc = "simulate_tree"
    /\ UNCHANGED <<caller, num_policies, train_exc, simulations, calls, root_state, i, tpc, episode,
                   train_state, passes, credits, entry, sim_start>>
    /\ IF state_is_final(state)
       THEN /\ pc' = "simulate_default"
            /\ UNCHANGED <<state, visited_states, expanded, performed_actions, first_action,
                           outcome, exc, aborted, recommended, distribution, tree, visit_counts_s,
                           visit_counts_sa, heuristic, created>>
       ELSE IF state.kind = "list"
       THEN /\ RaiseToCaller("TypeError")
            /\ UNCHANGED <<state, tree, visit_counts_s, visit_counts_sa, heuristic,
                           created>>
       ELSE IF not_in_tree(tree, state)
       THEN LET r == new_node(Cur, state)
            IN  /\ SetStats(r.st)
                /\ created' = Put(created, state,
                                  1 + IF state \in DOMAIN created THEN created[state] ELSE 0)
                /\ state' = state
                /\ IF r.exc # "none"
                   THEN RaiseToCaller(r.exc)
                   ELSE /\ pc' = "simulate_default"
                        /\ visited_states' = Append(visited_states, state)
                        /\ expanded' = <<state>>
                        /\ UNCHANGED <<performed_actions, first_action, outcome,
                                       exc, aborted, recommended, distribution>>
       ELSE LET action == select_action(Cur, state, default_exp_const)
                child == get_child_state(state, action.val)
            IN  /\ UNCHANGED <<tree, visit_counts_s, visit_counts_sa, heuristic,
                               created>>
                /\ IF action.exc # "none"
                   THEN RaiseToCaller(action.exc) /\ state' = state
                   ELSE IF child.exc # "none"
                   THEN RaiseToCaller(child.exc) /\ state' = state
                   ELSE /\ state' = child.val
                        /\ visited_states' = Append(visited_states, state)
                        /\ performed_actions' = Append(performed_actions, action.val)
                        /\ expanded' = expanded
                        /\ pc' = "simulate_tree"
                        /\ UNCHANGED <<first_action, outcome, exc, aborted, recommended, distribution>>

\* simulate_default up to its while loop: the first action, if the state is
\* not final.
simulate_default ==
    /\ pc = "simulate_default"
    /\ UNCHANGED <<caller, num_policies, train_exc, simulations, calls, root_state, i, tree,
                   visit_counts_s, visit_counts_sa, heuristic, tpc, episode,
                   train_state, passes, credits, created, entry, sim_start>>
    /\ IF state_is_final(state)
       THEN /\ first_action' = <<>>
            /\ pc' = "rollout"
            /\ UNCHANGED <<state, visited_states, expanded, performed_actions, outcome,
                           exc, aborted, recommended, distribution>>
       ELSE \E a \in Proposals :
              LET child == get_child_state(state, a)
              IN  IF child.exc # "none"
                  THEN RaiseToCaller(child.exc) /\ state' = state
                  ELSE /\ first_action' = <<a>>
                       /\ state' = child.val
                       /\ pc' = "rollout"
                       /\ UNCHANGED <<visited_states, expanded, performed_actions, outcome,
                                      exc, aborted, recommended, distribution>>

\* (mutant) simulate does not append the first action of the default policy
\* to the performed actions.
rollout_drops_first_action ==
    /\ pc = "rollout"
    /\ UNCHANGED <<caller, num_policies, train_exc, simulations, calls, root_state, i, tree,
                   visit_counts_s, visit_counts_sa, heuristic, tpc, episode,
                   train_state, passes, credits, created, entry, sim_start>>
    /\ IF state_is_final(state)
       THEN /\ outcome' = winner_is_p0(state)
            /\ performed_actions' = performed_actions
            /\ pc' = "backup"
            /\ UNCHANGED <<state, visited_states, expanded, first_action, exc, aborted, recommended, distribution>>
       ELSE \E a \in Proposals :
              LET child == get_child_state(state, a)
              IN  IF child.exc # "none"
                  THEN RaiseToCaller(child.exc) /\ state' = state
                  ELSE /\ state' = child.val
                       /\ UNCHANGED <<visited_states, expanded, performed_actions,
                                      first_action, outcome, exc, aborted, recommended, distribution, pc>>

\* One test of the while loop of simulate_default and, if it passes, its
\* body; when it fails, the return and simulate's append of the first action.
rollout ==
    /\ pc = "rollout"
    /\ UNCHANGED <<caller, num_policies, train_exc, simulations, calls, root_state, i, tree,
                   visit_counts_s, visit_counts_sa, heuristic, tpc, episode,
                   train_state, passes, credits, created, entry, sim_start>>
    /\ IF state_is_final(state)
       THEN /\ outcome' = winner_is_p0(state)
            /\ performed_actions' = performed_actions \o first_action
            /\ pc' = "backup"
            /\ UNCHANGED <<state, visited_states, expanded, first_action, exc, aborted, recommended, distribution>>
       ELSE \E a \in Proposals :
              LET child == get_child_state(state, a)
              IN  IF child.exc # "none"
                  THEN RaiseToCaller(child.exc) /\ state' = state
                  ELSE /\ state' = child.val
                       /\ UNCHANGED <<visited_states, expanded, performed_actions,
                                      first_action, outcome, exc, aborted, recommended, distribution, pc>>

\* The number of leading pairs of zip(visited_states, performed_actions)
\* whose statistics exist: the pairs a backup updates in full.
RECURSIVE Updated(_, _, _, _)
Updated(st, vs, pa, j) ==
    IF j > Min(Len(vs), Len(pa)) THEN j - 1
    ELSE IF \/ vs[j].kind = "list"
            \/ vs[j] \notin DOMAIN st.visit_counts_s
            \/ <<vs[j], pa[j]>> \notin DOMAIN st.visit_counts_sa
            \/ <<vs[j], pa[j]>> \notin DOMAIN st.heuristic
         THEN j - 1
    ELSE Updated(st, vs, pa, j + 1)

\* The history of a completed simulation: simulate_tree went through the
\* first `descended` visited states with select_action (one action each); a
\* visited state after these is the one it ended on with new_node.
Credited(c, vs, descended) ==
    LET seen == {vs[j] : j \in 1..Len(vs)}
        at(s) == CHOOSE j \in 1..Len(vs) : vs[j] = s
    IN  [s \in (DOMAIN c) \cup seen |->
            LET old == IF s \in DOMAIN c THEN c[s] ELSE <<0, 0>>
            IN  IF s \notin seen THEN old
                ELSE IF at(s) <= descended THEN <<old[1] + 1, old[2]>>
                ELSE <<old[1], old[2] + 1>>]

\* self.backup(visited_states, performed_actions, outcome), and the end of
\* this iteration of the loop of mc_tree_search.
backup_step ==
    /\ pc = "backup"
    /\ LET r == backup(Cur, visited_states, performed_actions, outcome)
           done == {<<visited_states[j], performed_actions[j]>> :
                      j \in 1..Updated(Cur, visited_states, performed_actions, 1)}
       IN  /\ SetStats(r.st)
           /\ passes' = [k \in (DOMAIN passes) \cup done |->
                           LET old == IF k \in DOMAIN passes THEN passes[k] ELSE <<0, 0>>
                           IN  IF k \in done THEN <<old[1] + 1, old[2] + outcome>>
                               ELSE old]
           /\ IF r.exc # "none"
              THEN RaiseToCaller(r.exc) /\ i' = i /\ credits' = credits
              ELSE /\ i' = i + 1
                   /\ credits' = Credited(credits, visited_states,
                                          Len(performed_actions) - Len(first_action))
                   /\ pc' = "mc_tree_search"
                   /\ ClearLocals
                   /\ UNCHANGED <<exc, aborted, recommended, distribution>>
    /\ UNCHANGED <<caller, num_policies, train_exc, simulations, calls, root_state, state, tpc, episode,
                   train_state, created, entry, sim_start>>

\* After the loop: self.state = root_state and the first element of the
\* returned pair, select_action(root_state, 0).
mc_tree_search_select ==
    /\ pc = "mc_tree_search"
    /\ i = simulations
    /\ state' = root_state
    /\ LET action == select_action(Cur, root_state, 0)
       IN  IF action.exc # "none"
           THEN RaiseToCaller(action.exc)
           ELSE /\ recommended' = <<action.val>>
                /\ pc' = "get_visited_distribution"
                /\ UNCHANGED <<visited_states, expanded, performed_actions, first_action,
                               outcome, exc, aborted, distribution>>
    /\ UNCHANGED <<caller, num_policies, train_exc, simulations, calls, root_state, i, tree,
                   visit_counts_s, visit_counts_sa, heuristic, tpc, episode,
                   train_state, passes, credits, created, entry, sim_start>>

\* The second element of the returned pair, and the return.
mc_tree_search_return ==
    /\ pc = "get_visited_distribution"
    /\ LET visited == get_visited_distribution(Cur, root_state)
       IN  IF visited.exc # "none"
           THEN RaiseToCaller(visited.exc)
           ELSE /\ pc' = "returned"
                /\ distribution' = visited.val
                /\ UNCHANGED <<visited_states, expanded, performed_actions, first_action,
                               outcome, exc, aborted, recommended>>
    /\ UNCHANGED <<caller, num_policies, train_exc, simulations, calls, root_state, i, state, tree,
                   visit_counts_s, visit_counts_sa, heuristic, tpc, episode,
                   train_state, passes, credits, created, entry, sim_start>>

\* ---------------------------------------------------------- training loop
\* ReinforcementLearner.__init__: the arguments are stored, then
\* self.sim_world.identifier is read, an attribute GameNim does not define:
\* on a GameNim as the repository makes it the constructor raises
\* AttributeError and there is no learner to train; on one the caller has
\* given an identifier, initialize_mcts replaces the search handed in by
\* MonteCarloTreeSearch(board, default_policy), whose budget is the default.
ReinforcementLearner_init ==
    /\ caller = "train"
    /\ tpc = "init"
    /\ \E has_identifier \in BOOLEAN :
          IF has_identifier
          THEN /\ tpc' = "for"
               /\ train_exc' = "none"
               /\ simulations' = default_simulations
          ELSE /\ tpc' = "crashed"
               /\ train_exc' = "AttributeError"
               /\ simulations' = simulations
    /\ SetStats(initialize_variables)
    /\ UNCHANGED <<caller, num_policies, calls, pc, root_state, i, state,
                   visited_states, expanded, performed_actions, first_action, outcome,
                   exc, aborted, recommended, distribution, episode, train_state,
                   passes, credits, created, entry, sim_start>>

\* for i in range(self.num_games): the initial state and the reset of the tree.
train_for ==
    /\ caller = "train"
    /\ tpc = "for"
    /\ episode < NumGames
    /\ train_state' = get_initial_state
    /\ SetStats(initialize_variables)
    /\ passes' = EmptyDict
    /\ credits' = EmptyDict
    /\ created' = EmptyDict
    /\ tpc' = "while"
    /\ UNCHANGED <<caller, num_policies, train_exc, simulations, calls, pc, root_state, i, state,
                   visited_states, expanded, performed_actions, first_action, outcome,
                   exc, aborted, recommended, distribution, episode, entry, sim_start>>

\* The end of an episode, i being its index: train_actor_network, then
\* i % (num_games // (num_policies - 1)), which raises ZeroDivisionError when
\* num_policies is 1 or num_games is less than num_policies - 1, and
\* otherwise goes on to the next iteration of the for loop.
train_episode_end(i_) ==
    IF num_policies - 1 = 0 \/ NumGames \div (num_policies - 1) = 0
    THEN [tpc |-> "crashed", episode |-> i_, exc |-> "ZeroDivisionError"]
    ELSE [tpc |-> IF i_ + 1 < NumGames THEN "for" ELSE "done",
          episode |-> i_ + 1, exc |-> "none"]

\* The test of the while loop and the call of mc_tree_search; when the state
\* is final, the episode ends (train_actor_network, next iteration).
train_while ==
    /\ caller = "train"
    /\ tpc = "while"
    /\ IF state_is_final(train_state)
       THEN /\ episode' = train_episode_end(episode).episode
            /\ tpc' = train_episode_end(episode).tpc
            /\ train_exc' = train_episode_end(episode).exc
            /\ UNCHANGED <<calls, pc, root_state, i, exc, aborted, recommended, distribution,
                           visited_states, expanded, performed_actions, first_action, outcome,
                           entry, sim_start>>
       ELSE /\ Enter(train_state)
            /\ tpc' = "call"
            /\ train_exc' = train_exc
            /\ episode' = episode
    /\ UNCHANGED <<caller, num_policies, simulations, state, tree, visit_counts_s,
                   visit_counts_sa, heuristic, train_state, passes, credits, created>>

\* except ValueError: break.  Any other exception leaves train.
train_except(e) == IF e = "ValueError" THEN "break" ELSE "crashed"

\* The move after a call that returned, as the exceptions it can end with.
\* np.argmax raises ValueError on an empty distribution; with probability
\* epsilon the distribution is normalised over its positive entries and
\* np.random.choice raises ValueError when there is none (0/0 is nan); then
\* sim_world.get_one_hot_action is looked up, a method GameNim does not have:
\* AttributeError.  None is caught (they are raised outside the try), so
\* train is left and no move is made.
train_move(distribution_) ==
    IF distribution_ = <<>> THEN {"ValueError"}
    ELSE {"AttributeError"} \cup
         (IF \A j \in DOMAIN distribution_ : distribution_[j] = 0
          THEN {"ValueError"} ELSE {})

\* What follows the call: the handler and the end of the episode, or the
\* move chosen from the returned distribution.
train_after_call ==
    /\ caller = "train"
    /\ tpc = "call"
    /\ pc \in {"raised", "returned"}
    /\ IF pc = "raised"
       THEN /\ train_state' = train_state
            /\ IF train_except(exc) = "break"
               THEN /\ episode' = train_episode_end(episode).episode
                    /\ tpc' = train_episode_end(episode).tpc
                    /\ train_exc' = train_episode_end(episode).exc
                    /\ pc' = "idle"
                    /\ exc' = "none"
                    /\ aborted' = aborted
               ELSE /\ episode' = episode
                    /\ tpc' = train_except(exc)
                    /\ train_exc' = exc
                    /\ UNCHANGED <<pc, exc, aborted>>
       ELSE /\ train_state' = train_state
            /\ tpc' = "crashed"
            /\ train_exc' \in train_move(distribution)
            /\ episode' = episode
            /\ UNCHANGED <<pc, exc, aborted>>
    /\ UNCHANGED <<caller, num_policies, simulations, calls, root_state, i, state,
                   visited_states, expanded, performed_actions, first_action, outcome,
                   recommended, distribution, tree, visit_counts_s,
                   visit_counts_sa, heuristic, passes, credits, created, entry, sim_start>>

Next ==
    \/ direct_initialize_variables
    \/ direct_mc_tree_search
    \/ simulate
    \/ simulate_tree
    \/ simulate_default
    \/ rollout
    \/ backup_step
    \/ mc_tree_search_select
    \/ mc_tree_search_return
    \/ ReinforcementLearner_init
    \/ train_for
    \/ train_while
    \/ train_after_call

Spec == Init /\ [][Next]_vars

\* ----------------------------------------------------------------- claims
\* The legal actions of s, none where get_legal_actions raises.
LegalActions(s) ==
    LET legal_actions == get_legal_actions(s)
    IN  IF legal_actions.exc = "none" THEN legal_actions.val ELSE <<>>

RECURSIVE SumCounts(_, _, _)
SumCounts(s, acts, j) ==
    IF j > Len(acts) THEN 0
    ELSE visit_counts_sa[<<s, acts[j]>>] + SumCounts(s, acts, j + 1)

\* x < y for heuristic values.
HLess(x, y) == x[1] * y[2] < y[1] * x[2]

\* The positions at which the search holds a game state in self.state.
InSimulation == {"simulate_tree", "simulate_default", "rollout", "backup"}

\* C1: every state of the tree has a visit count equal to the sum of the
\* visit counts of its legal actions, each of which has an entry.
C1_VisitCountIsSumOverActions ==
    \A s \in tree :
        /\ \A j \in 1..Len(LegalActions(s)) :
              <<s, LegalActions(s)[j]>> \in DOMAIN visit_counts_sa
        /\ visit_counts_s[s] = SumCounts(s, LegalActions(s), 1)

\* C1 witness: a state with two legal actions has been credited three times
\* or more, over two calls or more of mc_tree_search.
C1_Witness ==
    /\ calls >= 2
    /\ pc = "mc_tree_search"
    /\ \E s \in tree : Len(LegalActions(s)) = 2 /\ visit_counts_s[s] >= 3

\* C2: every action value lies in the outcome domain of winner_is_p0, [0, 1].
C2_HeuristicInOutcomeDomain ==
    \A k \in DOMAIN heuristic :
        /\ heuristic[k][2] > 0
        /\ 0 <= heuristic[k][1]
        /\ heuristic[k][1] <= heuristic[k][2]

\* C2 witness: a pair backed up twice or more holds the value 1.
C2_Witness ==
    \E k \in DOMAIN heuristic : visit_counts_sa[k] >= 2 /\ heuristic[k] = <<1, 1>>

\* C3: a step either keeps every state of the tree, or empties the tree
\* while no search is running; in the training loop the tree is emptied
\* only at the start of an episode, never between two of its moves.
C3_TreeOnlyGrowsWithinEpisode ==
    [][\/ tree \subseteq tree'
       \/ /\ tree' = {}
          /\ pc \in Idle
          /\ pc' \in Idle
          /\ caller = "train" => tpc = "for"]_vars

\* C3 witness: a second call of mc_tree_search of one episode is running on
\* a tree of two states that an earlier call has built.
C3_Witness ==
    /\ calls >= 2
    /\ pc = "simulate_tree"
    /\ Cardinality(tree) >= 2
    /\ \E s \in tree : visit_counts_s[s] >= simulations /\ simulations >= 1

\* The sum of a sequence of rationals.
RECURSIVE RatSum(_, _)
RatSum(q, j) ==
    IF j > Len(q) THEN <<0, 1>>
    ELSE LET rest == RatSum(q, j + 1)
         IN  Rat(q[j][1] * rest[2] + rest[1] * q[j][2], q[j][2] * rest[2])

\* C4: a call of mc_tree_search with a budget of 1 or more on a root that
\* is not final, all of whose simulations have run, returns a distribution
\* over the actions 1..max_take that sums to 1 and is 0 on the actions that
\* are not legal at the root.
C4_SearchReturnsNormalizedDistribution ==
    (/\ pc \in {"raised", "returned"}
     /\ simulations >= 1
     /\ i = simulations
     /\ ~state_is_final(root_state))
    => /\ pc = "returned"
       /\ Len(distribution) = max_take
       /\ RatSum(distribution, 1) = <<1, 1>>
       /\ \A a \in 1..max_take :
             (\A j \in 1..Len(LegalActions(root_state)) :
                 LegalActions(root_state)[j] # a) => distribution[a][1] = 0

\* C5: every initialized pair has a visit count equal to the number of
\* backups through it and a value equal to the mean of their outcomes
\* (0 when there was none).
C5_BackupIsRunningMean ==
    \A k \in DOMAIN visit_counts_sa :
        LET n == IF k \in DOMAIN passes THEN passes[k][1] ELSE 0
            total == IF k \in DOMAIN passes THEN passes[k][2] ELSE 0
        IN  /\ visit_counts_sa[k] = n
            /\ heuristic[k] = IF n = 0 THEN <<0, 1>> ELSE Rat(total, n)

\* C5 witness: the first simulation of a call has ended with the path
\* [(root, a)] and the outcome 1: visit count 1, value 1.
C5_Witness ==
    /\ pc = "mc_tree_search"
    /\ i = 1
    /\ \E k \in DOMAIN passes :
          /\ k[1] = root_state
          /\ passes[k] = <<1, 1>>
          /\ visit_counts_sa[k] = 1
          /\ heuristic[k] = <<1, 1>>

\* C6: the action the return statement of mc_tree_search selects is a legal
\* action of the root with the largest value when player 0 is to move, the
\* smallest when player 1 is, and the first such in get_legal_actions' order.
C6_RecommendedIsFirstExtreme ==
    pc = "get_visited_distribution" =>
        LET acts == LegalActions(root_state)
            h(j) == heuristic[<<root_state, acts[j]>>]
        IN  \E c \in 1..Len(acts) :
              /\ recommended = <<acts[c]>>
              /\ \A j \in 1..Len(acts) :
                    IF p0_to_play(root_state)
                    THEN ~HLess(h(c), h(j)) /\ (j < c => HLess(h(j), h(c)))
                    ELSE ~HLess(h(j), h(c)) /\ (j < c => HLess(h(c), h(j)))

\* C6 witness: with player 0 to move the second of two legal actions is
\* selected, its value being the larger one.
C6_Witness ==
    /\ pc = "get_visited_distribution"
    /\ Len(LegalActions(root_state)) = 2
    /\ p0_to_play(root_state)
    /\ recommended = <<2>>
    /\ HLess(heuristic[<<root_state, 1>>], heuristic[<<root_state, 2>>])

\* The actions get_child_state is to reject on state s: below 1, above
\* max_take, or above the number of pieces left.
Rejected(s) ==
    {a \in -1..(max_take + 2) :
        \/ a < 1
        \/ a > max_take
        \/ /\ get_num_discs_from_one_hot(s).exc = "none"
           /\ a > get_num_discs_from_one_hot(s).val}

\* C8: on every state the rollout reaches, get_child_state raises ValueError
\* for each action it is to reject, and a rollout step that get_child_state
\* ends with an exception ends with ValueError and leaves the tree, the
\* visit counts and the action values as they were.
C8_InvalidActionRaisesAndKeepsStatistics ==
    /\ [](pc \in InSimulation =>
            \A a \in Rejected(state) : get_child_state(state, a).exc = "ValueError")
    /\ [][(/\ pc \in {"simulate_default", "rollout"}
           /\ ~state_is_final(state)
           /\ pc' \notin {"simulate_default", "rollout", "backup"})
          => /\ exc' = "ValueError"
             /\ UNCHANGED <<tree, visit_counts_s, visit_counts_sa, heuristic>>]_vars

\* C8 witness: the rollout's first action was rejected on a one-hot root
\* with pieces left, which new_node had just added.
C8_Witness ==
    /\ pc = "raised"
    /\ exc = "ValueError"
    /\ Len(state.e) = num_pieces + 2
    /\ ~state_is_final(state)
    /\ state \in tree
    /\ visit_counts_s[state] = 0
    /\ i = 0

\* C9: a call of mc_tree_search on a final root, or with a budget of 0,
\* ends with an exception, and no call returns a distribution for a root
\* whose legal actions have no visits.
C9_DegenerateSearchRaises ==
    /\ (/\ pc \in {"raised", "returned"}
        /\ (state_is_final(root_state) \/ simulations = 0))
       => (pc = "raised" /\ exc # "none")
    /\ pc = "returned" =>
          SumCounts(root_state, LegalActions(root_state), 1) > 0

\* C9 witness: the simulations of a call on a final root have all run, and
\* the call has ended with an exception.
C9_Witness ==
    /\ pc = "raised"
    /\ exc = "ValueError"
    /\ simulations >= 1
    /\ i = simulations
    /\ state_is_final(root_state)

\* C10: an exception raised under mc_tree_search ends the call (the caller
\* has it; no position inside the search holds one); after it no step of
\* that call follows, only a new call or a reset; and the training loop makes
\* no further decision in that episode: it leaves or goes to the next episode.
C10_ErrorsReachTheCaller ==
    /\ [](exc # "none" => pc = "raised")
    /\ [][pc = "raised" =>
            \/ pc' \in {"raised", "idle"}
            \/ calls' = calls + 1 /\ pc' = "mc_tree_search" /\ i' = 0]_vars
    /\ [][(caller = "train" /\ pc = "raised") =>
            (tpc' = "crashed" \/ episode' = episode + 1)]_vars

\* C10 witness: the first simulation under the training loop raised, and the
\* exception has left train.
C10_Witness ==
    /\ caller = "train"
    /\ tpc = "crashed"
    /\ pc = "raised"
    /\ exc = "TypeError"
    /\ simulations >= 1
    /\ i = 0

\* The descents and the expansions credited to s so far.
Descents(s) == IF s \in DOMAIN credits THEN credits[s][1] ELSE 0
Expansions(s) == IF s \in DOMAIN credits THEN credits[s][2] ELSE 0

\* C11 (as stated): between two simulations the visit count of every state of
\* the tree is the number of completed simulations whose descent went through
\* it as a state already in the tree; the simulation that expanded it adds
\* nothing.
C11_VisitCountExcludesExpansion ==
    pc = "mc_tree_search" =>
        \A s \in tree : visit_counts_s[s] = Descents(s)

\* C11 (amended): between two simulations the visit count of every state of
\* the tree is the number of completed simulations whose descent went through
\* it as a state already in the tree, plus one if the simulation that
\* expanded it completed; a state is expanded by one simulation at most.
C11_VisitCountIncludesExpansion ==
    pc = "mc_tree_search" =>
        \A s \in tree :
            /\ visit_counts_s[s] = Descents(s) + Expansions(s)
            /\ Expansions(s) <= 1

\* C11 witness: a state was expanded by a completed simulation and a later
\* completed simulation descended through it.
C11_Witness ==
    /\ pc = "mc_tree_search"
    /\ \E s \in tree :
          /\ Expansions(s) = 1
          /\ Descents(s) >= 1
          /\ visit_counts_s[s] >= 2

\* The one-hot roots (lists and tuples) with player 0 to move from which a
\* move leaves the opponent a multiple of max_take + 1 pieces.
WinningRoots ==
    {r \in Roots :
        /\ Len(r.e) = num_pieces + 2
        /\ p0_to_play(r)
        /\ get_num_discs_from_one_hot(r).exc = "none"
        /\ get_num_discs_from_one_hot(r).val % (max_take + 1) # 0}

\* The move that leaves a multiple of max_take + 1 pieces.
OptimalMove(r) == get_num_discs_from_one_hot(r).val % (max_take + 1)

\* C12 (scaled from 10 pieces and 500 simulations to the bounds): a call of
\* mc_tree_search with a budget of 1 or more, on a root with player 0 to move
\* that has a winning move, returns, and the action it recommends is the move
\* that leaves the opponent a multiple of max_take + 1 pieces.
C12_RecommendsOptimalMove ==
    (simulations >= 1 /\ root_state \in WinningRoots) =>
        /\ pc \in {"raised", "returned"} => pc = "returned"
        /\ pc \in {"get_visited_distribution", "returned"} =>
              recommended = <<OptimalMove(root_state)>>

\* C13: where mc_tree_search computes the distribution it returns, for a root
\* whose legal actions have visits, get_visited_distribution returns the
\* vector over the actions 1..max_take that holds, for every legal action of
\* the root, its visit count divided by the sum of the visit counts of the
\* legal actions of the root.
C13_DistributionIsVisitShare ==
    (/\ pc = "get_visited_distribution"
     /\ SumCounts(root_state, LegalActions(root_state), 1) > 0)
    => LET visited == get_visited_distribution(Cur, root_state)
           acts == LegalActions(root_state)
       IN  /\ visited.exc = "none"
           /\ Len(visited.val) = max_take
           /\ \A j \in 1..Len(acts) :
                 visited.val[acts[j]] =
                    Rat(visit_counts_sa[<<root_state, acts[j]>>],
                        SumCounts(root_state, acts, 1))

\* C14: between two resets new_node runs once at most on a state, and no step
\* that keeps a state in the tree lowers its visit count or the visit count
\* of one of its actions, or changes the value of an action whose visit count
\* it leaves alone.
C14_NewNodeOncePerState ==
    /\ [](\A s \in DOMAIN created : created[s] <= 1)
    /\ [][\A s \in tree \cap tree' :
            /\ s \in DOMAIN visit_counts_s'
            /\ visit_counts_s'[s] >= visit_counts_s[s]
            /\ \A k \in DOMAIN visit_counts_sa :
                  k[1] = s =>
                    /\ k \in DOMAIN visit_counts_sa'
                    /\ visit_counts_sa'[k] >= visit_counts_sa[k]
                    /\ visit_counts_sa'[k] = visit_counts_sa[k]
                          => heuristic'[k] = heuristic[k]]_vars

\* C14 witness: in a second call of mc_tree_search the descent passed a
\* state that new_node had set up once and that had been visited since, and
\* left its statistics alone.
C14_Witness ==
    /\ calls >= 2
    /\ pc = "simulate_tree"
    /\ Len(visited_states) = 1
    /\ Len(performed_actions) = 1
    /\ visited_states[1] \in tree
    /\ created[visited_states[1]] = 1
    /\ visit_counts_s[visited_states[1]] >= 1

\* The (state, action) pairs backup is handed, and their states.
PathPairs ==
    {<<visited_states[j], performed_actions[j]>> :
        j \in 1..Min(Len(visited_states), Len(performed_actions))}
PathStates == {k[1] : k \in PathPairs}

\* C15: the steps of select_action (in the descent and in the return
\* statement), of simulate_default and of get_visited_distribution leave the
\* tree, the visit counts and the action values as they are; backup keeps the
\* tree and the keys, adds exactly 1 to the visit count of every pair and
\* every state of its path, and changes no other visit count and no other
\* action value; and an entry of a state that stays in the tree changes in
\* backup only.
C15_OnlyBackupChangesStatistics ==
    [][/\ (\/ pc \in {"mc_tree_search", "simulate_default", "rollout",
                       "get_visited_distribution"}
           \/ pc = "simulate_tree" /\ state \in tree)
          => UNCHANGED <<tree, visit_counts_s, visit_counts_sa, heuristic>>
       /\ pc = "backup" =>
            /\ tree' = tree
            /\ DOMAIN visit_counts_s' = DOMAIN visit_counts_s
            /\ DOMAIN visit_counts_sa' = DOMAIN visit_counts_sa
            /\ DOMAIN heuristic' = DOMAIN heuristic
            /\ \A s \in DOMAIN visit_counts_s :
                  visit_counts_s'[s] =
                     visit_counts_s[s] + IF s \in PathStates THEN 1 ELSE 0
            /\ \A k \in DOMAIN visit_counts_sa :
                  /\ visit_counts_sa'[k] =
                        visit_counts_sa[k] + IF k \in PathPairs THEN 1 ELSE 0
                  /\ k \notin PathPairs => heuristic'[k] = heuristic[k]
       /\ \A s \in tree \cap tree' :
            (\/ visit_counts_s'[s] # visit_counts_s[s]
             \/ \E k \in DOMAIN visit_counts_sa :
                   /\ k[1] = s
                   /\ \/ visit_counts_sa'[k] # visit_counts_sa[k]
                      \/ heuristic'[k] # heuristic[k])
            => pc = "backup"]_vars

\* C15 witness: a backup has credited one action of a state with two legal
\* actions and left the other at 0, in a tree that holds another state.
C15_Witness ==
    /\ pc = "mc_tree_search"
    /\ i >= 1
    /\ Cardinality(tree) >= 2
    /\ \E s \in tree :
          /\ Len(LegalActions(s)) = 2
          /\ \E a, b \in 1..max_take :
                /\ visit_counts_sa[<<s, a>>] >= 1
                /\ visit_counts_sa[<<s, b>>] = 0
                /\ heuristic[<<s, b>>] = <<0, 1>>

\* The states the sim world calls final: those with a 1 in the first place.
Terminal(s) == s.e[1] = 1

\* C16: no final state is in the tree or has a visit count or an action
\* entry; when the descent stands on a final state it ends without new_node,
\* simulate_default proposes no action (first_action stays None) and keeps
\* the state, the outcome is winner_is_p0 of that state, and backup is handed
\* as many actions as visited states and credits exactly these pairs.
C16_FinalStateNeverExpanded ==
    /\ [](/\ \A s \in tree \cup DOMAIN visit_counts_s : ~Terminal(s)
          /\ \A k \in DOMAIN visit_counts_sa \cup DOMAIN heuristic : ~Terminal(k[1])
          /\ (pc = "backup" /\ first_action = <<>>) =>
                /\ Terminal(state)
                /\ Len(performed_actions) = Len(visited_states)
                /\ outcome = IF state.e[Len(state.e)] = 0 THEN 0 ELSE 1)
    /\ [][(pc = "simulate_tree" /\ Terminal(state)) =>
             /\ pc' = "simulate_default"
             /\ UNCHANGED <<state, visited_states, performed_actions, tree,
                            visit_counts_s, visit_counts_sa, heuristic>>]_vars
    /\ [][(pc = "simulate_default" /\ Terminal(state)) =>
             /\ pc' = "rollout"
             /\ first_action' = <<>>
             /\ UNCHANGED <<state, performed_actions>>]_vars
    /\ [][(pc = "rollout" /\ Terminal(state) /\ first_action = <<>>) =>
             /\ pc' = "backup"
             /\ UNCHANGED <<state, performed_actions>>]_vars
    /\ [][(pc = "backup" /\ first_action = <<>>) =>
             \A k \in DOMAIN visit_counts_sa :
                visit_counts_sa'[k] =
                   visit_counts_sa[k] +
                   IF \E j \in 1..Len(visited_states) :
                         k = <<visited_states[j], performed_actions[j]>>
                   THEN 1 ELSE 0]_vars

\* C16 witness: a descent of one step from a root of the tree stands on a
\* final state with player 1 to move; there is no first action, the outcome
\* is 1, and backup is about to credit the one descent pair.
C16_Witness ==
    /\ pc = "backup"
    /\ first_action = <<>>
    /\ Len(visited_states) = 1
    /\ Len(performed_actions) = 1
    /\ Terminal(state)
    /\ state \notin tree
    /\ outcome = 1

\* C17: a rollout that stands on a state that is not final can go on with a
\* legal action (the state has legal actions and get_child_state accepts each
\* of them), so that a simulation fed legal actions ends, and it ends on a
\* final state; the loop counter of mc_tree_search goes up only in the step
\* that ends a simulation's backup, and the next simulation starts with
\* empty lists.
C17_SimulationRunsToFinalState ==
    /\ []((pc \in {"simulate_default", "rollout"} /\ ~state_is_final(state)) =>
            /\ get_legal_actions(state).exc = "none"
            /\ Len(LegalActions(state)) >= 1
            /\ \A j \in 1..Len(LegalActions(state)) :
                  get_child_state(state, LegalActions(state)[j]).exc = "none")
    /\ [](pc = "backup" => state_is_final(state))
    /\ [][i' # i => (pc = "backup" /\ i' = i + 1) \/ i' = 0]_vars
    /\ [][(pc = "mc_tree_search" /\ pc' = "simulate_tree") =>
             (visited_states' = <<>> /\ performed_actions' = <<>>)]_vars

\* C18 (as stated): every completed simulation of a call has added one state
\* to the tree: between two simulations of a call on a root that is not
\* final, the tree holds as many states more than at the entry of the call
\* as simulations have run.
C18_EverySimulationAddsANode ==
    (pc = "mc_tree_search" /\ ~state_is_final(root_state)) =>
        Cardinality(tree) = Cardinality(entry.tree) + i

\* C18 (amended): a simulation adds one state to the tree at most, the state
\* its descent stops on when that state is not final and not yet in the
\* tree; so between two simulations the tree holds the states it held at the
\* entry of the call and at most as many more as simulations have run.
C18_AtMostOneNodePerSimulation ==
    /\ [](pc = "mc_tree_search" =>
            /\ entry.tree \subseteq tree
            /\ Cardinality(tree \ entry.tree) <= i)
    /\ [][tree' # tree =>
            \/ tree' = {} /\ pc \in Idle
            \/ /\ pc = "simulate_tree"
               /\ pc' # "simulate_tree"
               /\ ~Terminal(state)
               /\ state \notin tree
               /\ tree' = tree \cup {state}]_vars

\* C18 witness: two simulations of a call have run and the tree has grown by
\* one state: the second one went down to a final state.
C18_Witness ==
    /\ pc = "mc_tree_search"
    /\ i = 2
    /\ Cardinality(tree \ entry.tree) = 1
    /\ root_state \in tree \ entry.tree

\* No action at all is accepted on s: whatever ended a simulation on s,
\* it was not the choice of the action.
NoActionAccepted(s) ==
    \A a \in Proposals : get_child_state(s, a).exc # "none"

\* The visit count of the root of the running call, 0 when it has none.
RootVisits ==
    IF root_state \in DOMAIN visit_counts_s THEN visit_counts_s[root_state] ELSE 0

\* C19: a call of mc_tree_search with budget M on a one-hot root (a tuple)
\* that is not final, once it has ended (by a return, by an exception of the return statement,
\* or by an exception on a state on which no action is accepted), has run M
\* simulations, and the visit count of the root is its value at the entry
\* of the call (0 when the root was not in the tree) plus M.
C19_RootCreditedOncePerSimulation ==
    (/\ pc \in {"raised", "returned"}
     /\ root_state \in {Tuple(r.e) : r \in OneHots}
     /\ ~state_is_final(root_state)
     /\ pc = "raised" => (i = simulations \/ NoActionAccepted(state)))
    => /\ i = simulations
       /\ RootVisits = entry.root_visits + simulations

\* C20: the lists handed to backup have the same length; each visited state
\* after the first is the child of the one before it under the action at its
\* place (and during the descent the state stood on is the child of the last
\* visited state under the last action); there is a first action of the
\* default policy exactly when new_node has set up a state in this
\* simulation, that state is then the last visited one and the first action
\* the last action; every pair has a visit count and a value and its state a
\* visit count; and backup credits every pair and raises nothing.
C20_BackupListsFormAChain ==
    /\ pc = "backup" =>
          LET n == Len(visited_states)
          IN  /\ Len(performed_actions) = n
              /\ \A j \in 1..(n - 1) :
                    get_child_state(visited_states[j], performed_actions[j])
                       = Return(visited_states[j + 1])
              /\ (first_action # <<>>) <=> (expanded # <<>>)
              /\ expanded # <<>> =>
                    /\ n >= 1
                    /\ expanded[1] = visited_states[n]
                    /\ performed_actions[n] = first_action[1]
              /\ \A j \in 1..n :
                    /\ visited_states[j] \in DOMAIN visit_counts_s
                    /\ <<visited_states[j], performed_actions[j]>>
                          \in DOMAIN visit_counts_sa \cap DOMAIN heuristic
              /\ Updated(Cur, visited_states, performed_actions, 1) = n
              /\ backup(Cur, visited_states, performed_actions, outcome).exc = "none"
    /\ (pc = "simulate_tree" /\ Len(visited_states) >= 1) =>
          /\ Len(performed_actions) = Len(visited_states)
          /\ get_child_state(visited_states[Len(visited_states)],
                             performed_actions[Len(visited_states)])
                = Return(state)

\* C20 witness: backup is handed the pair of a root that new_node has set up
\* in this simulation and of the first action of the default policy.
C20_Witness ==
    /\ pc = "backup"
    /\ visited_states = <<root_state>>
    /\ expanded = <<root_state>>
    /\ first_action = <<2>>
    /\ performed_actions = <<2>>

\* C21: as long as no exception has ended a simulation, every state of the
\* tree has a visit count of 1 or more between two simulations, between two
\* calls and in the return statement, and the state select_action is called
\* on during the descent has a visit count of 1 or more: np.log is never
\* handed 0.
C21_DescentNeverTakesLogOfZero ==
    ~aborted =>
        /\ pc \in Idle \cup {"mc_tree_search", "get_visited_distribution"} =>
              \A s \in tree : visit_counts_s[s] >= 1
        /\ (/\ pc = "simulate_tree"
            /\ ~state_is_final(state)
            /\ state.kind = "tuple"
            /\ state \in tree)
           => visit_counts_s[state] >= 1

\* C21 witness: no simulation has been ended by an exception, and the
\* descent of a second call is about to call select_action on a root that
\* the first call expanded and credited.
C21_Witness ==
    /\ ~aborted
    /\ calls >= 2
    /\ pc = "simulate_tree"
    /\ visited_states = <<>>
    /\ ~state_is_final(state)
    /\ state \in tree
    /\ visit_counts_s[state] >= 1

\* A rollout step that ends the simulation with an exception: the default
\* policy proposed an action on a state that is not final and
\* get_child_state raised.
RolloutRejects ==
    /\ pc \in {"simulate_default", "rollout"}
    /\ ~state_is_final(state)
    /\ pc' = "raised"

\* The statistics st with the node of state s as new_node leaves it: s in
\* the tree with visit count 0, each of its legal actions with visit count 0
\* and value 0.
WithFreshNode(st, s) ==
    LET acts == LegalActions(s)
        keys == {<<s, acts[j]>> : j \in 1..Len(acts)}
    IN  Stats(st.tree \cup {s},
              Put(st.visit_counts_s, s, 0),
              [k \in (DOMAIN st.visit_counts_sa) \cup keys |->
                 IF k \in keys THEN 0 ELSE st.visit_counts_sa[k]],
              [k \in (DOMAIN st.heuristic) \cup keys |->
                 IF k \in keys THEN <<0, 1>> ELSE st.heuristic[k]])

\* C22 as stated: when get_child_state rejects an action proposed during
\* the rollout, the tree, the visit counts and the action values are what
\* they were when the simulation started.
C22_AbortedSimulationRestoresStatistics ==
    [][RolloutRejects => Cur' = sim_start]_vars

\* C22 amended: when get_child_state rejects an action proposed during the
\* rollout, the rejected call changes no statistic, and the statistics differ
\* from those at the start of the simulation by exactly the node the descent
\* of this simulation expanded: that state was not in the tree, and it stays
\* in the tree with visit count 0 and count 0 and value 0 for each of its
\* legal actions; every other entry is as it was.
C22_AbortedSimulationKeepsOnlyItsExpansion ==
    [][RolloutRejects =>
          /\ exc' = "ValueError"
          /\ Cur' = Cur
          /\ Len(expanded) = 1
          /\ expanded[1] \notin sim_start.tree
          /\ Cur' = WithFreshNode(sim_start, expanded[1])]_vars

\* C22 witness: in a later call on the same statistics, the rollout's action
\* was rejected on a one-hot root that was not in the tree when the
\* simulation started and is in it now, with no visits.
C22_Witness ==
    /\ pc = "raised"
    /\ exc = "ValueError"
    /\ Len(state.e) = num_pieces + 2
    /\ ~state_is_final(state)
    /\ state \notin sim_start.tree
    /\ sim_start.tree # {}
    /\ state \in tree
    /\ visit_counts_s[state] = 0
    /\ Cur # sim_start

\* The oracle reads c as the Nim state with n pieces left and player p to
\* move: c is hashable, its pieces, player, legal actions and finality are
\* read as those of (n, p), and get_child_state accepts each legal action.
ReadsAsNim(c, n, p) ==
    /\ c.kind = "tuple"
    /\ get_num_discs_from_one_hot(c) = Return(n)
    /\ p0_to_play(c) <=> (p = 0)
    /\ get_legal_actions(c) = Return([a \in 1..Min(n, max_take) |-> a])
    /\ state_is_final(c) <=> (n = 0)
    /\ \A a \in 1..Min(n, max_take) : get_child_state(c, a).exc = "none"

\* The one-hot states the program holds: the state of the episode, which
\* train got from get_initial_state, and the state of a running simulation.
EncodedStates ==
    (IF train_state # <<>> THEN {train_state} ELSE {}) \cup
    (IF pc \in InSimulation /\ Len(state.e) = num_pieces + 2
     THEN {state} ELSE {})

\* C23: for each one-hot state s with n pieces and player p to move, and each
\* action a in 1..min(n, max_take), get_child_state(s, a) returns a state
\* that the oracle reads as (n - a, 1 - p): hashable, with n - a pieces, the
\* other player to move, legal actions 1..min(n - a, max_take), final exactly
\* when n - a = 0, and accepted by get_child_state for each of these actions.
C23_OracleReadsItsOwnStates ==
    \A s \in EncodedStates :
        LET n == get_num_discs_from_one_hot(s).val
            p == s.e[Len(s.e)]
        IN  \A a \in 1..Min(n, max_take) :
                LET c == get_child_state(s, a)
                IN  /\ c.exc = "none"
                    /\ ReadsAsNim(c.val, n - a, 1 - p)

====
